---- MODULE Spec2Model ----
(***************************************************************************)
(* Model of logchange: the file-backed response cache (APICache), the      *)
(* rate limiter (RateLimiter) of scripts/cache_utils.py, and the changelog *)
(* and commit-message pipelines that call the text-generation provider.    *)
(***************************************************************************)
EXTENDS Integers, Sequences, FiniteSets, TLC

(***************************************************************************)
(* Bounds of the model.                                                    *)
(***************************************************************************)
\* clock granularity in seconds: the clock advances in multiples of Quantum
Quantum == 5
\* no invocation starts after MaxTime seconds
MaxTime == 120
\* the cache is explored over the clock values 0..MaxCacheTime
MaxCacheTime == 1
\* largest configured ttl_seconds explored
MaxTtl == 1
\* largest number of commits the changelog pipeline is run on
MaxCommits == 3
\* largest configured max_calls_per_minute explored
MaxCallsBound == 2
\* number of wait_if_needed invocations explored on one limiter
MaxInvocations == 4
\* number of APICache constructions explored in one working directory
MaxConstructions == 3

(***************************************************************************)
(* Program constants.                                                      *)
(***************************************************************************)
\* the rolling window of RateLimiter.wait_if_needed, in seconds
WINDOW == 60

VARIABLES
    \* RateLimiter
    max_calls,      \* self.max_calls
    calls,          \* self.calls, a list of timestamps
    now,            \* the wall clock read by time.time()
    history,        \* one record per wait_if_needed invocation, in order
    \* APICache
    ttl_seconds,    \* self.ttl_seconds
    files,          \* the *.json files of self.cache_dir, by cache key
    lastOp,         \* the last APICache operation, its inputs and its outcome
    gitignore,      \* the .gitignore file of the working directory
    ctor,           \* the last APICache construction and how it ended
    \* changelog and commit-message pipelines
    commits,        \* the diffs of the commits iterate_commits returned, in order
    changelog,      \* the entries generate_changelog has appended
    providerCalls,  \* the requests sent to the text-generation provider
    commitMsg,      \* what generate_commit_message returned, once it has run
    \* the command-line run (cli.main)
    run,            \* its inputs, where it stands and its exit status
    output          \* the file named by --output

rlVars == <<max_calls, calls, history>>
cacheVars == <<ttl_seconds, files, lastOp, gitignore, ctor>>
pipeVars == <<commits, changelog, providerCalls, commitMsg, run, output>>
vars == <<now, rlVars, cacheVars, pipeVars>>

Range(s) == {s[i] : i \in DOMAIN s}

(***************************************************************************)
(* APICache: keys, stored text and the JSON conversion                     *)
(***************************************************************************)

\* the (content, model, style) triples the cache is called with; two of them
\* differ only in where the ':' falls
Triples == { <<"a", "m", "">>, <<"a:", "m", "">>, <<"a", ":m", "">> }
\* the responses written to the cache
Responses == {"r1", "r2"}

\* key_str = f"{content}:{model}:{style}"
KeyStr(content, model, style) == content \o ":" \o model \o ":" \o style

\* hashlib.sha256(key_str.encode()).hexdigest(): SHA-256 is taken to be
\* injective on the key strings of the model, so the digest is the key string
CacheKey(content, model, style) == KeyStr(content, model, style)

CacheKeys == { CacheKey(t[1], t[2], t[3]) : t \in Triples }

\* the tokens of a JSON text: a kind, and the number or the string it carries
Tok(kind, n, str) == <<kind, n, str>>
TokKind(t) == t[1]
TokNum(t) == t[2]
TokStr(t) == t[3]
LBRACE == Tok("{", 0, "")
RBRACE == Tok("}", 0, "")
LBRACK == Tok("[", 0, "")
RBRACK == Tok("]", 0, "")
KeyTok(name) == Tok("key", 0, name)
NumTok(n) == Tok("num", n, "")
StrTok(str) == Tok("str", 0, str)

\* a file of the cache directory: present or not, and its text
NoFile == [exists |-> FALSE, text |-> <<>>]
File(text) == [exists |-> TRUE, text |-> text]

\* data = {"timestamp": time.time(), "response": response, "model": model}
\* followed by json.dump(data, f): the text written for the record
JsonDump(timestamp, response, model) ==
    << LBRACE, KeyTok("timestamp"), NumTok(timestamp),
       KeyTok("response"), StrTok(response),
       KeyTok("model"), StrTok(model), RBRACE >>

\* a text that is a JSON object: braces around key/value pairs
IsObjectText(text) ==
    /\ Len(text) >= 2
    /\ text[1] = LBRACE
    /\ text[Len(text)] = RBRACE
    /\ (Len(text) - 2) % 2 = 0
    /\ \A i \in 1..((Len(text) - 2) \div 2) :
          /\ TokKind(text[2 * i]) = "key"
          /\ TokKind(text[2 * i + 1]) \in {"num", "str"}

\* the dict a JSON object text parses to (the last occurrence of a key wins)
ObjectItems(text) ==
    LET pairs == 1..((Len(text) - 2) \div 2)
        names == { TokStr(text[2 * i]) : i \in pairs }
        lastOf(name) == CHOOSE i \in pairs :
                            /\ TokStr(text[2 * i]) = name
                            /\ \A j \in pairs : TokStr(text[2 * j]) = name => j <= i
    IN  [ name \in names |-> text[2 * lastOf(name) + 1] ]

\* json.load(f): the parsed value, or JSONDecodeError
JsonLoad(text) ==
    IF IsObjectText(text)
    THEN [err |-> FALSE, py |-> "dict", items |-> ObjectItems(text)]
    ELSE IF text = <<LBRACK, RBRACK>>
    THEN [err |-> FALSE, py |-> "list", items |-> <<>>]
    ELSE IF Len(text) = 1 /\ TokKind(text[1]) \in {"num", "str"}
    THEN [err |-> FALSE, py |-> TokKind(text[1]), items |-> <<>>]
    ELSE [err |-> TRUE, py |-> "", items |-> <<>>]

\* the first n tokens of a text: a truncated record
Truncate(text, n) == SubSeq(text, 1, n)

\* texts that may lie in the cache directory when the cache is constructed
\* (mkdir(exist_ok=True) adopts whatever the directory holds): an old
\* well-formed record, and damaged or foreign ones
ForeignTexts ==
    { JsonDump(0, "r1", "m"),
      Truncate(JsonDump(0, "r1", "m"), 4),
      <<LBRACK, RBRACK>>,
      <<NumTok(5)>>,
      <<LBRACE, KeyTok("response"), StrTok("r1"), RBRACE>>,
      <<LBRACE, KeyTok("timestamp"), NumTok(0), RBRACE>>,
      <<LBRACE, KeyTok("timestamp"), StrTok("x"),
        KeyTok("response"), StrTok("r1"), RBRACE>> }

\* Optional[str]
None == [some |-> FALSE, v |-> ""]
Some(v) == [some |-> TRUE, v |-> v]

\* the outcome of an operation: its return value, the exception that left
\* it (if any), the count it returns, and the files it leaves
Outcome(result, raised, count, fs) ==
    [result |-> result, raised |-> raised, count |-> count, files |-> fs]

\* the staleness test without the strict comparison: an entry whose age
\* equals the TTL is already stale
IsExpired_AtTtl(current_time, timestamp, ttl) == current_time - timestamp >= ttl

\* time.time() - data["timestamp"] > self.ttl_seconds
IsExpired(current_time, timestamp, ttl) == current_time - timestamp > ttl

\* cache_path.unlink(): the files after deleting the record of a key
Unlink(fs, key) == [fs EXCEPT ![key] = NoFile]

\* except (json.JSONDecodeError, KeyError, OSError) of get: delete the
\* record if it exists, return None; a failing unlink raises out of get
GetHandler(fs, key, failUnlink) ==
    IF fs[key].exists
    THEN IF failUnlink
         THEN Outcome(None, "OSError", 0, fs)
         ELSE Outcome(None, "none", 0, Unlink(fs, key))
    ELSE Outcome(None, "none", 0, fs)

\* the expired branch of get returning None without deleting the record
GetExpired_KeepsRecord(fs, key, failUnlink) == Outcome(None, "none", 0, fs)

\* the expired branch of get (lines 63-65): unlink and return None; an
\* OSError of the unlink is caught by the except clause
GetExpired(fs, key, failUnlink) ==
    IF failUnlink
    THEN GetHandler(fs, key, failUnlink)
    ELSE Outcome(None, "none", 0, Unlink(fs, key))

\* APICache.get after the key is derived.  failRead: opening or reading the
\* file raises OSError; failUnlink: unlinking it raises OSError.
GetOutcome(fs, key, current_time, ttl, failRead, failUnlink) ==
    IF ~fs[key].exists
    THEN Outcome(None, "none", 0, fs)
    ELSE IF failRead
    THEN GetHandler(fs, key, failUnlink)
    ELSE LET data == JsonLoad(fs[key].text)
         IN  IF data.err
             THEN GetHandler(fs, key, failUnlink)
             ELSE IF data.py # "dict"
             THEN Outcome(None, "TypeError", 0, fs)
             ELSE IF "timestamp" \notin DOMAIN data.items
             THEN GetHandler(fs, key, failUnlink)
             ELSE IF TokKind(data.items["timestamp"]) # "num"
             THEN Outcome(None, "TypeError", 0, fs)
             ELSE IF IsExpired(current_time, TokNum(data.items["timestamp"]), ttl)
             THEN GetExpired(fs, key, failUnlink)
             ELSE IF "response" \notin DOMAIN data.items
             THEN GetHandler(fs, key, failUnlink)
             ELSE Outcome(Some(TokStr(data.items["response"])), "none", 0, fs)

\* set leaving a record that already exists as it is
SetOutcome_KeepsExisting(fs, key, current_time, response, model, fault) ==
    IF fs[key].exists
    THEN Outcome(None, "none", 0, fs)
    ELSE Outcome(None, "none", 0,
                 [fs EXCEPT ![key] = File(JsonDump(current_time, response, model))])

\* APICache.set after the key is derived.  fault: "none"; "open" (open("w")
\* fails, the file is untouched); "write" (the file was opened, hence
\* truncated, and the write failed: a prefix of the text is left).  OSError
\* is swallowed in every case.
SetOutcome(fs, key, current_time, response, model, fault) ==
    LET text == JsonDump(current_time, response, model)
    IN  CASE fault = "none"  -> Outcome(None, "none", 0, [fs EXCEPT ![key] = File(text)])
          [] fault = "open"  -> Outcome(None, "none", 0, fs)
          [] fault = "write" -> Outcome(None, "none", 0,
                                        [fs EXCEPT ![key] = File(Truncate(text, 4))])

\* clear counting every file it tried to unlink, the failed unlinks included
ClearOutcome_CountsAttempts(fs, failUnlink) ==
    LET deleted == { k \in CacheKeys : fs[k].exists /\ k \notin failUnlink }
    IN  Outcome(None, "none", Cardinality({ k \in CacheKeys : fs[k].exists }),
                [k \in CacheKeys |-> IF k \in deleted THEN NoFile ELSE fs[k]])

\* APICache.clear: unlink every *.json file, counting the unlinks that
\* succeed; OSError is swallowed per file
ClearOutcome(fs, failUnlink) ==
    LET deleted == { k \in CacheKeys : fs[k].exists /\ k \notin failUnlink }
    IN  Outcome(None, "none", Cardinality(deleted),
                [k \in CacheKeys |-> IF k \in deleted THEN NoFile ELSE fs[k]])

\* the except clause of clear_expired (lines 124-127): an unguarded unlink
ClearExpiredHandler(fs, key, failUnlink) ==
    IF key \in failUnlink
    THEN Outcome(None, "OSError", 0, fs)
    ELSE Outcome(None, "none", 1, Unlink(fs, key))

\* one iteration of the loop of clear_expired (lines 117-127) on one file
ClearExpiredStep(fs, key, current_time, ttl, failRead, failUnlink) ==
    IF key \in failRead
    THEN ClearExpiredHandler(fs, key, failUnlink)
    ELSE LET data == JsonLoad(fs[key].text)
         IN  IF data.err
             THEN ClearExpiredHandler(fs, key, failUnlink)
             ELSE IF data.py # "dict"
             THEN Outcome(None, "TypeError", 0, fs)
             ELSE IF "timestamp" \notin DOMAIN data.items
             THEN ClearExpiredHandler(fs, key, failUnlink)
             ELSE IF TokKind(data.items["timestamp"]) # "num"
             THEN Outcome(None, "TypeError", 0, fs)
             ELSE IF IsExpired(current_time, TokNum(data.items["timestamp"]), ttl)
             THEN IF key \in failUnlink
                  THEN ClearExpiredHandler(fs, key, failUnlink)
                  ELSE Outcome(None, "none", 1, Unlink(fs, key))
             ELSE Outcome(None, "none", 0, fs)

\* APICache.clear_expired: the loop over the files in the order glob yields
\* them; an exception that leaves an iteration ends the loop
RECURSIVE ClearExpiredLoop(_, _, _, _, _, _, _)
ClearExpiredLoop(fs, order, count, current_time, ttl, failRead, failUnlink) ==
    IF order = <<>>
    THEN Outcome(None, "none", count, fs)
    ELSE LET step == ClearExpiredStep(fs, Head(order), current_time, ttl,
                                      failRead, failUnlink)
         IN  IF step.raised # "none"
             THEN Outcome(None, step.raised, count, step.files)
             ELSE ClearExpiredLoop(step.files, Tail(order), count + step.count,
                                   current_time, ttl, failRead, failUnlink)

\* the orders in which self.cache_dir.glob("*.json") may yield the files
RECURSIVE Orders(_)
Orders(S) ==
    IF S = {} THEN { <<>> }
    ELSE UNION { { <<k>> \o o : o \in Orders(S \ {k}) } : k \in S }
GlobOrders(fs) == Orders({ k \in CacheKeys : fs[k].exists })

\* no operation of the cache has run yet
NoOp ==
    [op |-> "none", content |-> "", model |-> "", style |-> "", response |-> "",
     at |-> 0, pre |-> NoFile, result |-> None,
     raised |-> "none", count |-> 0, faulty |-> FALSE,
     prior |-> [isSet |-> FALSE, response |-> "", at |-> 0]]

\* whether the operation before this one was a set of the same triple whose
\* write succeeded, and what it wrote
Prior(content, model, style) ==
    IF /\ lastOp.op = "set"
       /\ ~lastOp.faulty
       /\ <<lastOp.content, lastOp.model, lastOp.style>> = <<content, model, style>>
    THEN [isSet |-> TRUE, response |-> lastOp.response, at |-> lastOp.at]
    ELSE [isSet |-> FALSE, response |-> "", at |-> 0]

(***************************************************************************)
(* APICache.__init__: the .gitignore side effect                           *)
(***************************************************************************)

\* the cache_dir arguments, as character sequences: one is contained in
\* the other
Dirs == { <<"c">>, <<"p", "c">> }

\* f"{cache_dir}/\n", the text written for a cache directory
Entry(dir) == dir \o <<"/", "\n">>

\* the .gitignore texts the working directory may hold before the first
\* construction: empty, a line with and without its newline
GitignoreTexts == { <<>>, <<"x", "\n">>, <<"x">> }

\* cache_dir in content: the substring test of line 30
Contains(content, dir) ==
    \E i \in 1..(Len(content) - Len(dir) + 1) :
        SubSeq(content, i, i + Len(dir) - 1) = dir

\* what the .gitignore part of __init__ leaves and whether it raised
CtorOutcome(raised, gi) == [raised |-> raised, gitignore |-> gi]

\* lines 27-34 of __init__.  fault "read": gitignore.read_text() raises;
\* fault "write": opening for append, or write_text, raises.  Nothing
\* catches the OSError.
GitignoreOutcome(gi, dir, fault) ==
    IF gi.exists
    THEN IF fault = "read"
         THEN CtorOutcome("OSError", gi)
         ELSE IF ~Contains(gi.text, dir)
         THEN IF fault = "write"
              THEN CtorOutcome("OSError", gi)
              ELSE CtorOutcome("none", File(gi.text \o <<"\n">> \o Entry(dir)))
         ELSE CtorOutcome("none", gi)
    ELSE IF fault = "write"
         THEN CtorOutcome("OSError", gi)
         ELSE CtorOutcome("none", File(Entry(dir)))

\* no cache has been constructed
NoCtor == [dir |-> <<>>, raised |-> "none", n |-> 0]

(***************************************************************************)
(* Pipelines: what they send to the provider and what they return          *)
(***************************************************************************)

\* the diffs of the commits, and the model the run is configured with
Diffs == {"a", "a:"}
PipelineModel == "m"
\* what the provider answers: generated text, or a provider error
ProviderAnswers == Responses \cup {"error"}

\* summarize_commit handing the provider's failure on as the summary
SummaryOf_Raw(answer) == answer

\* the except branch of summarize_commit: return "Summary unavailable."
SummaryOf(answer) == IF answer = "error" THEN "Summary unavailable." ELSE answer

\* the except branch of generate_commit_message: return None
MessageOf(answer) == IF answer = "error" THEN None ELSE Some(answer)

\* the request openai.ChatCompletion.create / client.chat.completions.create
\* receives, and whether it succeeded
ProviderCall(caller, diff, model, answer) ==
    [caller |-> caller, diff |-> diff, model |-> model, ok |-> answer # "error"]

\* the values --format is run with: the three formats and an unknown one
Formats == {"markdown", "json", "csv", "xml"}

\* choices=["markdown", "json", "csv"] of parse_args: argparse exits with
\* status 2 on any other value
ParseArgsExits(format) == format \notin {"markdown", "json", "csv"}

\* Config.from_args treating a missing OPENAI_API_KEY as set
FromArgsRaises_Never(key) == FALSE

\* Config.from_args: raise ValueError when OPENAI_API_KEY is not set
FromArgsRaises(key) == ~key

\* git.Repo(repo_path) in iterate_commits: raises on an invalid path
RepoRaises(repo) == repo = "invalid"

\* get_formatter: raise ValueError for a format that has no formatter
GetFormatterRaises(format) == format \notin {"markdown", "json", "csv"}

\* formatter.format(changelog, stats): a header that depends on the format,
\* then one block per entry
FormatChangelog(format, entries) ==
    <<format>> \o [i \in 1..Len(entries) |-> entries[i].summary]

\* what the output file holds before the run, if it exists
OldOutput == File(<<"old">>)

\* a run of the command line: its inputs (whether OPENAI_API_KEY is set, the
\* repository path, the format, whether the output file exists), the step
\* it is at, its exit status (-1 while running), whether it was interrupted
Run(key, repo, format, had) ==
    [key |-> key, repo |-> repo, format |-> format, had |-> had,
     pc |-> "parse_args", status |-> -1, interrupted |-> FALSE]

\* no command-line run has been started
RunIdle == [Run(TRUE, "ok", "markdown", FALSE) EXCEPT !.pc = "idle"]

\* sys.exit(status), reached directly or through the handlers of main
Exit(r, status) == [r EXCEPT !.pc = "exited", !.status = status]

\* no pipeline is running
PipelineIdle ==
    /\ commits = <<>>
    /\ changelog = <<>>
    /\ providerCalls = <<>>
    /\ commitMsg = [ran |-> FALSE, value |-> None]
    /\ run = RunIdle
    /\ output = NoFile

(***************************************************************************)
(* RateLimiter                                                             *)
(***************************************************************************)

\* the pruning comparison inverted: only the stale timestamps are kept
Prune_Inverted(cs, current_time) == SelectSeq(cs, LAMBDA t : current_time - t >= WINDOW)

\* self.calls = [t for t in self.calls if current_time - t < 60]
Prune(cs, current_time) == SelectSeq(cs, LAMBDA t : current_time - t < WINDOW)

\* an off-by-one ceiling test: the limit counts as reached one call too late
LimitReached_OffByOne(cs, mx) == Len(cs) > mx

\* len(self.calls) >= self.max_calls
LimitReached(cs, mx) == Len(cs) >= mx

\* min(self.calls); raises ValueError on an empty list
MinRaises(cs) == cs = <<>>
Min(cs) == CHOOSE t \in Range(cs) : \A u \in Range(cs) : t <= u

\* the wait computed over half the window
WaitTime_HalfWindow(cs, current_time) == (WINDOW \div 2) - (current_time - Min(cs))

\* wait_time = 60 - (current_time - oldest_call)
WaitTime(cs, current_time) == WINDOW - (current_time - Min(cs))

\* self.calls after the branch of wait_if_needed that slept: the list is
\* reset and the timestamp read at entry is appended
CallsAfterSleep(cs, current_time) == Append(<<>>, current_time)

\* self.calls after a branch that did not sleep
CallsNoSleep(cs, current_time) == Append(cs, current_time)

\* RateLimiter.__init__: the limiter is constructed with any ceiling
InitLimiter ==
    /\ max_calls \in 0..MaxCallsBound
    /\ calls = <<>>
    /\ now = 0
    /\ history = <<>>
    /\ ttl_seconds = 0
    /\ files = [k \in CacheKeys |-> NoFile]
    /\ lastOp = NoOp
    /\ gitignore = NoFile
    /\ ctor = NoCtor
    /\ PipelineIdle

\* time passes between invocations
Tick ==
    /\ \E d \in 1..(WINDOW \div Quantum) :
          /\ now + d * Quantum <= MaxTime
          /\ now' = now + d * Quantum
    /\ UNCHANGED <<max_calls, calls, history, cacheVars, pipeVars>>

\* RateLimiter.wait_if_needed, the whole invocation including its sleep.
\* over is the time by which time.sleep overshoots the requested duration.
WaitIfNeeded(over) ==
    /\ Len(history) < MaxInvocations
    /\ now <= MaxTime
    /\ LET current_time == now
           pruned == Prune(calls, current_time)
       IN  IF LimitReached(pruned, max_calls)
           THEN IF MinRaises(pruned)
                THEN \* min([]) raises ValueError out of wait_if_needed
                     /\ calls' = pruned
                     /\ now' = now
                     /\ history' = Append(history,
                           [entry |-> current_time, wait |-> 0, slept |-> FALSE,
                            release |-> now, outcome |-> "ValueError"])
                ELSE LET wait_time == WaitTime(pruned, current_time)
                     IN  IF wait_time > 0
                         THEN /\ now' = now + wait_time + over
                              /\ calls' = CallsAfterSleep(pruned, current_time)
                              /\ history' = Append(history,
                                    [entry |-> current_time, wait |-> wait_time,
                                     slept |-> TRUE,
                                     release |-> now + wait_time + over,
                                     outcome |-> "returned"])
                         ELSE /\ now' = now
                              /\ calls' = CallsNoSleep(pruned, current_time)
                              /\ history' = Append(history,
                                    [entry |-> current_time, wait |-> wait_time,
                                     slept |-> FALSE, release |-> now,
                                     outcome |-> "returned"])
           ELSE /\ now' = now
                /\ calls' = CallsNoSleep(pruned, current_time)
                /\ history' = Append(history,
                      [entry |-> current_time, wait |-> 0, slept |-> FALSE,
                       release |-> now, outcome |-> "returned"])
    /\ UNCHANGED <<max_calls, cacheVars, pipeVars>>

NextLimiter ==
    \/ Tick
    \/ \E over \in {0, Quantum} : WaitIfNeeded(over)

SpecLimiter == InitLimiter /\ [][NextLimiter]_vars

(***************************************************************************)
(* APICache: construction and operations                                   *)
(***************************************************************************)

\* APICache.__init__: a time-to-live of zero or the largest explored; the
\* directory may already hold files
InitCache ==
    /\ ttl_seconds \in {0, MaxTtl}
    /\ files \in [CacheKeys -> {NoFile} \cup { File(t) : t \in ForeignTexts }]
    /\ lastOp = NoOp
    /\ gitignore = File(Entry(<<"c">>))
    /\ ctor = [dir |-> <<"c">>, raised |-> "none", n |-> 1]
    /\ now = 0
    /\ max_calls = 1
    /\ calls = <<>>
    /\ history = <<>>
    /\ PipelineIdle

\* time passes between operations of the cache
CacheTick ==
    /\ now < MaxCacheTime
    /\ now' = now + 1
    /\ UNCHANGED <<rlVars, cacheVars, pipeVars>>

\* APICache.get(content, model, style)
Get(content, model, style, failRead, failUnlink) ==
    LET key == CacheKey(content, model, style)
        out == GetOutcome(files, key, now, ttl_seconds, failRead, failUnlink)
    IN  /\ files' = out.files
        /\ lastOp' = [op |-> "get", content |-> content, model |-> model,
                      style |-> style, response |-> "", at |-> now,
                      pre |-> files[key], result |-> out.result,
                      raised |-> out.raised, count |-> 0,
                      faulty |-> out # GetOutcome(files, key, now, ttl_seconds,
                                                  FALSE, FALSE),
                      prior |-> Prior(content, model, style)]
        /\ UNCHANGED <<now, rlVars, ttl_seconds, gitignore, ctor, pipeVars>>

\* APICache.set(content, model, response, style)
Set(content, model, response, style, fault) ==
    LET key == CacheKey(content, model, style)
        out == SetOutcome(files, key, now, response, model, fault)
    IN  /\ files' = out.files
        /\ lastOp' = [op |-> "set", content |-> content, model |-> model,
                      style |-> style, response |-> response, at |-> now,
                      pre |-> NoFile, result |-> out.result,
                      raised |-> out.raised, count |-> 0,
                      faulty |-> out # SetOutcome(files, key, now, response,
                                                  model, "none"),
                      prior |-> Prior(content, model, style)]
        /\ UNCHANGED <<now, rlVars, ttl_seconds, gitignore, ctor, pipeVars>>

\* APICache.clear()
Clear(failUnlink) ==
    LET out == ClearOutcome(files, failUnlink)
    IN  /\ files' = out.files
        /\ lastOp' = [NoOp EXCEPT !.op = "clear", !.at = now,
                                  !.raised = out.raised, !.count = out.count,
                                  !.faulty = (out # ClearOutcome(files, {}))]
        /\ UNCHANGED <<now, rlVars, ttl_seconds, gitignore, ctor, pipeVars>>

\* APICache.clear_expired()
ClearExpired(order, failRead, failUnlink) ==
    LET out == ClearExpiredLoop(files, order, 0, now, ttl_seconds,
                                failRead, failUnlink)
    IN  /\ files' = out.files
        /\ lastOp' = [NoOp EXCEPT !.op = "clear_expired", !.at = now,
                                  !.raised = out.raised, !.count = out.count,
                                  !.faulty =
                                      (out # ClearExpiredLoop(files, order, 0, now,
                                                              ttl_seconds, {}, {}))]
        /\ UNCHANGED <<now, rlVars, ttl_seconds, gitignore, ctor, pipeVars>>

NextCache ==
    \/ CacheTick
    \/ \E t \in Triples, failRead, failUnlink \in BOOLEAN :
          Get(t[1], t[2], t[3], failRead, failUnlink)
    \/ \E t \in Triples, r \in Responses, fault \in {"none", "open", "write"} :
          Set(t[1], t[2], r, t[3], fault)
    \/ \E failUnlink \in SUBSET CacheKeys : Clear(failUnlink)
    \/ \E order \in GlobOrders(files),
          failRead \in {{}} \cup {{k} : k \in {j \in CacheKeys : files[j].exists}},
          failUnlink \in {{}, CacheKeys} :
          ClearExpired(order, failRead, failUnlink)

SpecCache == InitCache /\ [][NextCache]_vars

(***************************************************************************)
(* APICache.__init__ in a working directory                                *)
(***************************************************************************)

\* the working directory before the first construction: it may or may not
\* hold a .gitignore
InitCtor ==
    /\ gitignore \in {NoFile} \cup { File(t) : t \in GitignoreTexts }
    /\ ctor = NoCtor
    /\ ttl_seconds = 0
    /\ files = [k \in CacheKeys |-> NoFile]
    /\ lastOp = NoOp
    /\ now = 0
    /\ max_calls = 1
    /\ calls = <<>>
    /\ history = <<>>
    /\ PipelineIdle

\* APICache(cache_dir, ttl_seconds), the whole constructor: the fields are
\* set, the directory is created or adopted with the (empty) content it
\* has, then .gitignore is read and written; an OSError of that part leaves
\* the constructor, so the caller gets no cache object
Construct(dir, ttl, fault) ==
    /\ ctor.n < MaxConstructions
    /\ LET out == GitignoreOutcome(gitignore, dir, fault)
       IN  /\ gitignore' = out.gitignore
           /\ ctor' = [dir |-> dir, raised |-> out.raised, n |-> ctor.n + 1]
           /\ ttl_seconds' = IF out.raised = "none" THEN ttl ELSE ttl_seconds
    /\ UNCHANGED <<now, rlVars, files, lastOp, pipeVars>>

NextCtor ==
    \E dir \in Dirs, ttl \in 0..MaxTtl, fault \in {"none", "read", "write"} :
        Construct(dir, ttl, fault)

SpecCtor == InitCtor /\ [][NextCtor]_vars

(***************************************************************************)
(* Pipelines: cli.generate_changelog and gen_commit_msg                    *)
(***************************************************************************)

\* the run starts with the commits iterate_commits returned, an empty cache
\* directory and a limiter nobody has called
InitPipeline ==
    /\ commits \in UNION { [1..n -> Diffs] : n \in 1..MaxCommits }
    /\ changelog = <<>>
    /\ providerCalls = <<>>
    /\ commitMsg = [ran |-> FALSE, value |-> None]
    /\ run = RunIdle
    /\ output = NoFile
    /\ now = 0
    /\ max_calls = 1
    /\ calls = <<>>
    /\ history = <<>>
    /\ ttl_seconds = MaxTtl
    /\ files = [k \in CacheKeys |-> NoFile]
    /\ lastOp = NoOp
    /\ gitignore = NoFile
    /\ ctor = NoCtor

\* one iteration of the loop of generate_changelog (cli.py lines 108-117):
\* summarize_commit sends the prompt built from the diff to the provider and
\* the entry is appended
SummarizeCommit(answer) ==
    /\ Len(changelog) < Len(commits)
    /\ LET i == Len(changelog) + 1
       IN  /\ providerCalls' = Append(providerCalls,
                 ProviderCall("summarize_commit", commits[i], PipelineModel, answer))
           /\ changelog' = Append(changelog,
                 [hash |-> i, summary |-> SummaryOf(answer)])
    /\ UNCHANGED <<now, rlVars, cacheVars, commits, commitMsg, run, output>>

\* gen_commit_msg.generate_commit_message on one diff
GenerateCommitMessage(diff, answer) ==
    /\ ~commitMsg.ran
    /\ providerCalls' = Append(providerCalls,
          ProviderCall("generate_commit_message", diff, PipelineModel, answer))
    /\ commitMsg' = [ran |-> TRUE, value |-> MessageOf(answer)]
    /\ UNCHANGED <<now, rlVars, cacheVars, commits, changelog, run, output>>

NextPipeline ==
    \/ \E answer \in ProviderAnswers : SummarizeCommit(answer)
    \/ \E diff \in Diffs, answer \in ProviderAnswers : GenerateCommitMessage(diff, answer)

SpecPipeline == InitPipeline /\ [][NextPipeline]_vars

(***************************************************************************)
(* The command line: cli.main                                              *)
(***************************************************************************)

\* the process starts: any combination of credential, repository path,
\* format and pre-existing output file
InitCli ==
    /\ run \in { Run(key, repo, format, had) :
                    key \in BOOLEAN, repo \in {"ok", "invalid"},
                    format \in Formats, had \in BOOLEAN }
    /\ output = IF run.had THEN OldOutput ELSE NoFile
    /\ commits = <<>>
    /\ changelog = <<>>
    /\ providerCalls = <<>>
    /\ commitMsg = [ran |-> FALSE, value |-> None]
    /\ now = 0
    /\ max_calls = 1
    /\ calls = <<>>
    /\ history = <<>>
    /\ ttl_seconds = MaxTtl
    /\ files = [k \in CacheKeys |-> NoFile]
    /\ lastOp = NoOp
    /\ gitignore = NoFile
    /\ ctor = NoCtor

\* what a step of the run leaves alone besides the variables it names
CliFrame == UNCHANGED <<now, rlVars, cacheVars, commitMsg>>

\* parse_args(): argparse rejects an unknown --format with exit status 2
ParseArgs ==
    /\ run.pc = "parse_args"
    /\ run' = IF ParseArgsExits(run.format)
              THEN Exit(run, 2)
              ELSE [run EXCEPT !.pc = "from_args"]
    /\ UNCHANGED <<commits, changelog, providerCalls, output>>
    /\ CliFrame

\* Config.from_args(args): the ValueError is caught by main, which exits 1
FromArgs ==
    /\ run.pc = "from_args"
    /\ run' = IF FromArgsRaises(run.key)
              THEN Exit(run, 1)
              ELSE [run EXCEPT !.pc = "iterate_commits"]
    /\ UNCHANGED <<commits, changelog, providerCalls, output>>
    /\ CliFrame

\* iterate_commits (cli.py lines 97-101): git.Repo raises on an invalid
\* path (caught by except Exception, exit 1); no commits: sys.exit(1)
IterateCommits(cs) ==
    /\ run.pc = "iterate_commits"
    /\ IF RepoRaises(run.repo) \/ cs = <<>>
       THEN /\ run' = Exit(run, 1)
            /\ commits' = commits
       ELSE /\ run' = [run EXCEPT !.pc = "summarize"]
            /\ commits' = cs
    /\ UNCHANGED <<changelog, providerCalls, output>>
    /\ CliFrame

\* one iteration of the loop of generate_changelog inside the run
CliSummarize(answer) ==
    /\ run.pc = "summarize"
    /\ SummarizeCommit(answer)

\* get_formatter(config.output_format) and formatter.format, after the loop
GetFormatter ==
    /\ run.pc = "summarize"
    /\ Len(changelog) = Len(commits)
    /\ run' = IF GetFormatterRaises(run.format)
              THEN Exit(run, 1)
              ELSE [run EXCEPT !.pc = "open"]
    /\ UNCHANGED <<commits, changelog, providerCalls, output>>
    /\ CliFrame

\* open(output_file, "w") of write_output: the file is created or truncated;
\* an OSError leaves it alone and main exits 1
OpenOutput(fail) ==
    /\ run.pc = "open"
    /\ IF fail
       THEN /\ run' = Exit(run, 1)
            /\ output' = output
       ELSE /\ run' = [run EXCEPT !.pc = "write"]
            /\ output' = File(<<>>)
    /\ UNCHANGED <<commits, changelog, providerCalls>>
    /\ CliFrame

\* f.write(content) and the close that ends the with block, then the return
\* of main; a failing write leaves the first n blocks and main exits 1
WriteOutput(fail, n) ==
    /\ run.pc = "write"
    /\ LET content == FormatChangelog(run.format, changelog)
       IN  IF fail
           THEN /\ n < Len(content)
                /\ run' = Exit(run, 1)
                /\ output' = File(Truncate(content, n))
           ELSE /\ n = Len(content)
                /\ run' = Exit(run, 0)
                /\ output' = File(content)
    /\ UNCHANGED <<commits, changelog, providerCalls>>
    /\ CliFrame

\* KeyboardInterrupt while main runs: no handler below main catches it
\* (summarize_commit catches Exception only), main exits 130.  When it
\* arrives during f.write the first n blocks have reached the file.
Interrupt(n) ==
    /\ run.pc \notin {"idle", "exited"}
    /\ run' = [Exit(run, 130) EXCEPT !.interrupted = TRUE]
    /\ IF run.pc = "write"
       THEN /\ n < Len(FormatChangelog(run.format, changelog))
            /\ output' = File(Truncate(FormatChangelog(run.format, changelog), n))
       ELSE /\ n = 0
            /\ output' = output
    /\ UNCHANGED <<commits, changelog, providerCalls>>
    /\ CliFrame

NextCli ==
    \/ ParseArgs
    \/ FromArgs
    \/ \E cs \in UNION { [1..n -> Diffs] : n \in 0..MaxCommits } : IterateCommits(cs)
    \/ \E answer \in ProviderAnswers : CliSummarize(answer)
    \/ GetFormatter
    \/ \E fail \in BOOLEAN : OpenOutput(fail)
    \/ \E fail \in BOOLEAN, n \in 0..(MaxCommits + 1) : WriteOutput(fail, n)
    \/ \E n \in 0..MaxCommits : Interrupt(n)

SpecCli == InitCli /\ [][NextCli]_vars

(***************************************************************************)
(* Claims about the rate limiter (checked under SpecLimiter)               *)
(***************************************************************************)
Last(s) == s[Len(s)]

\* the release instants of the invocations that returned
Released == {i \in DOMAIN history : history[i].outcome = "returned"}

\* the invocations released in the 60-second interval that starts at instant t
ReleasedIn(t) ==
    {j \in Released : history[j].release >= t /\ history[j].release < t + WINDOW}

\* C1: with max_calls = N >= 1 and a non-decreasing clock, no 60-second
\* interval contains more than N call releases (a release is the instant
\* wait_if_needed returns).  Any interval that holds releases can be slid to
\* start at its first release, so intervals starting at a release suffice.
C1_CeilingNeverExceeded ==
    max_calls >= 1 =>
        \A i \in Released : Cardinality(ReleasedIn(history[i].release)) <= max_calls

\* C7: immediately after any wait_if_needed invocation returns, the number of
\* timestamps t recorded in calls with now - t < 60 is at most max_calls.
C7_RecordedCallsWithinCeiling ==
    (/\ history # <<>>
     /\ Last(history).outcome = "returned"
     /\ now = Last(history).release)
        => Cardinality({i \in DOMAIN calls : now - calls[i] < WINDOW}) <= max_calls

\* C7 witness: an invocation found the limit reached, slept, and returned
\* with a full window of recorded calls behind it
C7_Witness ==
    /\ history # <<>>
    /\ max_calls >= 2
    /\ Last(history).outcome = "returned"
    /\ Last(history).slept
    /\ now = Last(history).release
    /\ \E i \in DOMAIN history : ~history[i].slept /\ history[i].entry > 0

\* the first k invocations all started at the same instant
SameInstant(k) == \A i \in 1..k : history[i].entry = history[1].entry

\* C8: from a fresh limiter with max_calls = N, N invocations at the same
\* instant never sleep, and the (N+1)-th invocation made within the same
\* 60-second window sleeps for a duration strictly greater than 0.
C8_BurstThenWait ==
    max_calls >= 1 =>
    /\ \A k \in DOMAIN history :
          (k <= max_calls /\ SameInstant(k)) => ~history[k].slept
    /\ Len(history) >= max_calls + 1 =>
          ((/\ SameInstant(max_calls)
            /\ \A i \in 1..max_calls :
                  history[max_calls + 1].entry - history[i].entry < WINDOW)
             => (history[max_calls + 1].slept /\ history[max_calls + 1].wait > 0))

\* C8 witness: a burst of max_calls invocations at one instant, then a later
\* invocation inside the same window, which slept
C8_Witness ==
    /\ max_calls >= 2
    /\ Len(history) >= max_calls + 1
    /\ SameInstant(max_calls)
    /\ history[max_calls + 1].entry > history[1].entry
    /\ history[max_calls + 1].entry - history[1].entry < WINDOW
    /\ history[max_calls + 1].slept

\* C9: wait_if_needed never fails: for every configured max_calls (0
\* included) every invocation returns normally without raising.
C9_NeverFails == \A i \in DOMAIN history : history[i].outcome = "returned"

\* the step is one invocation of wait_if_needed
IsInvocation == Len(history') = Len(history) + 1

\* the positions of calls whose timestamp is still inside the window
Tracked == {i \in DOMAIN calls : now - calls[i] < WINDOW}

\* the oldest timestamp still inside the window
OldestTracked ==
    CHOOSE t \in {calls[i] : i \in Tracked} : \A i \in Tracked : t <= calls[i]

\* C18: when wait_if_needed finds max_calls or more timestamps remaining in
\* the window after pruning, it blocks for 60 - (now - oldest remaining call),
\* so the call is released no earlier than 60 seconds after the oldest
\* tracked call; with max_calls = 2 and three invocations at t = 0 the third
\* is released at t >= 59.
C18_BlockedUntilWindowEnds ==
    /\ [][ (/\ IsInvocation
             /\ Tracked # {}
             /\ Cardinality(Tracked) >= max_calls) =>
              /\ Last(history').slept
              /\ Last(history').wait = WINDOW - (now - OldestTracked)
              /\ Last(history').release >= OldestTracked + WINDOW
              /\ now' = Last(history').release ]_vars
    /\ [] ((/\ max_calls = 2
             /\ Len(history) >= 3
             /\ \A i \in 1..3 : history[i].entry = 0)
                => history[3].release >= 59)

\* C18 witness: with max_calls = 2 the third invocation found two calls of
\* different ages in the window and was held until the older one left it
C18_Witness ==
    /\ max_calls = 2
    /\ Len(history) = 3
    /\ history[1].entry = 0
    /\ history[2].entry > 0
    /\ history[3].entry > history[2].entry
    /\ history[3].slept
    /\ history[3].release = WINDOW
    /\ now = history[3].release

\* C19: every invocation of wait_if_needed terminates: it sleeps at most
\* once, for a duration greater than 0 and at most 60 seconds, and then
\* returns having appended exactly one timestamp to calls.
C19_TerminatesAndRecords ==
    [][ IsInvocation =>
          /\ Last(history').outcome = "returned"
          /\ Last(history').slept =>
                (Last(history').wait > 0 /\ Last(history').wait <= WINDOW)
          /\ calls' # <<>>
          /\ Last(calls') = Last(history').entry
          /\ Len(calls') <= Len(calls) + 1 ]_vars

(***************************************************************************)
(* Claims about the cache (checked under SpecCache)                        *)
(***************************************************************************)

\* the key the last operation addressed
LastKey == CacheKey(lastOp.content, lastOp.model, lastOp.style)

\* a stored record that parses to a dict with a numeric timestamp and a response
WellFormed(file) ==
    /\ file.exists
    /\ LET data == JsonLoad(file.text)
       IN  /\ ~data.err
           /\ data.py = "dict"
           /\ {"timestamp", "response"} \subseteq DOMAIN data.items
           /\ TokKind(data.items["timestamp"]) = "num"
           /\ TokKind(data.items["response"]) = "str"

TimestampOf(file) == TokNum(JsonLoad(file.text).items["timestamp"])
ResponseOf(file) == TokStr(JsonLoad(file.text).items["response"])

\* C2: a get executed immediately after a successful set of the same triple,
\* with no more than ttl_seconds elapsed, returns exactly the response set
\* (the get itself meets no storage fault).
C2_GetAfterSet ==
    (/\ lastOp.op = "get"
     /\ ~lastOp.faulty
     /\ lastOp.prior.isSet
     /\ lastOp.at - lastOp.prior.at <= ttl_seconds)
        => (lastOp.raised = "none" /\ lastOp.result = Some(lastOp.prior.response))

\* C2 witness: a get right after a set, made when exactly ttl_seconds > 0
\* have elapsed, over a key another triple shares
C2_Witness ==
    /\ lastOp.op = "get"
    /\ ~lastOp.faulty
    /\ lastOp.prior.isSet
    /\ ttl_seconds >= 1
    /\ lastOp.at - lastOp.prior.at = ttl_seconds
    /\ lastOp.result = Some("r2")

\* C3: for a stored well-formed entry, a get made when now - timestamp >
\* ttl_seconds returns None and removes the record from the directory; a get
\* made when now - timestamp <= ttl_seconds returns the stored response.
C3_ExpiryOnGet ==
    (/\ lastOp.op = "get"
     /\ ~lastOp.faulty
     /\ WellFormed(lastOp.pre))
        => IF lastOp.at - TimestampOf(lastOp.pre) > ttl_seconds
           THEN /\ lastOp.raised = "none"
                /\ lastOp.result = None
                /\ ~files[LastKey].exists
           ELSE /\ lastOp.raised = "none"
                /\ lastOp.result = Some(ResponseOf(lastOp.pre))

\* C3 witness: a get found a record that a set wrote after construction and
\* that has since expired
C3_Witness ==
    /\ lastOp.op = "get"
    /\ ~lastOp.faulty
    /\ WellFormed(lastOp.pre)
    /\ ResponseOf(lastOp.pre) = "r2"
    /\ lastOp.at - TimestampOf(lastOp.pre) > ttl_seconds
    /\ ~files[LastKey].exists

\* C4: for every malformed stored record (unparsable or truncated text, a
\* record missing timestamp or response, a payload that is not a record with
\* a numeric timestamp) get never raises: it returns None and the record is
\* removed from storage.
C4_MalformedNeverRaises ==
    (/\ lastOp.op = "get"
     /\ ~lastOp.faulty
     /\ lastOp.pre.exists
     /\ ~WellFormed(lastOp.pre))
        => /\ lastOp.raised = "none"
           /\ lastOp.result = None
           /\ ~files[LastKey].exists

\* C10: a storage I/O failure at any step of get, set, clear or
\* clear_expired never propagates to the caller.
C10_IoFailureNeverPropagates == lastOp.raised # "OSError"

\* the records of the cache directory
Stored(fs) == { k \in CacheKeys : fs[k].exists }

\* the step is an execution of the named operation of the cache
IsStep(op) == lastOp'.op = op /\ now' = now

\* every triple is absent for a get made on the files fs
AllAbsent(fs) ==
    \A t \in Triples :
        LET out == GetOutcome(fs, CacheKey(t[1], t[2], t[3]), now, ttl_seconds,
                              FALSE, FALSE)
        IN  out.raised = "none" /\ out.result = None

\* C11: clear deletes every stored record regardless of its age or validity
\* and returns exactly the number of records it deleted; afterwards the
\* cache holds no records and get returns absent for every triple (the count
\* is exact even when an unlink fails; the cache is empty when none fails).
C11_ClearDeletesAll ==
    [][ IsStep("clear") =>
          /\ lastOp'.raised = "none"
          /\ lastOp'.count = Cardinality(Stored(files) \ Stored(files'))
          /\ Stored(files') \subseteq Stored(files)
          /\ ~lastOp'.faulty =>
                /\ Stored(files') = {}
                /\ lastOp'.count = Cardinality(Stored(files))
                /\ AllAbsent(files') ]_vars

\* C11 witness: a clear that met no fault emptied a full directory some
\* time after construction
C11_Witness ==
    /\ lastOp.op = "clear"
    /\ ~lastOp.faulty
    /\ lastOp.at >= 1
    /\ lastOp.count = Cardinality(CacheKeys)
    /\ Stored(files) = {}

\* a stored record whose age exceeds ttl_seconds at the instant current_time
Expired(file, current_time) ==
    WellFormed(file) /\ current_time - TimestampOf(file) > ttl_seconds

\* C12: for any mix of fresh, expired and corrupt records, clear_expired
\* deletes exactly the records whose age exceeds ttl_seconds plus the corrupt
\* ones, leaves every fresh well-formed record in place unchanged, and
\* returns exactly the number of records it deleted (no storage fault met).
C12_ClearExpiredExact ==
    [][ (IsStep("clear_expired") /\ ~lastOp'.faulty) =>
          /\ lastOp'.raised = "none"
          /\ \A k \in CacheKeys :
                files'[k] = IF files[k].exists /\ (~WellFormed(files[k])
                                                    \/ Expired(files[k], now))
                            THEN NoFile
                            ELSE files[k]
          /\ lastOp'.count = Cardinality(Stored(files) \ Stored(files')) ]_vars

\* the key the operation of this step addresses
StepKey == CacheKey(lastOp'.content, lastOp'.model, lastOp'.style)

\* C20: a set whose write fails is a no-op on the stored state: if a fresh
\* entry for the same triple existed before the failed set, the record is
\* unchanged and a subsequent get still returns the previously stored
\* response.
C20_FailedSetIsNoOp ==
    [][ (/\ IsStep("set")
         /\ lastOp'.faulty
         /\ WellFormed(files[StepKey])
         /\ ~Expired(files[StepKey], now)) =>
          /\ files' = files
          /\ GetOutcome(files', StepKey, now, ttl_seconds, FALSE, FALSE).result
                = Some(ResponseOf(files[StepKey])) ]_vars

\* what a get of the triple returns on the files fs when no fault is met
GetResult(fs, t) ==
    GetOutcome(fs, CacheKey(t[1], t[2], t[3]), now, ttl_seconds, FALSE, FALSE).result

\* the triple the operation of this step is called with
StepTriple == <<lastOp'.content, lastOp'.model, lastOp'.style>>

\* C21: entries for different (content, model, style) triples do not
\* interfere: for all triples A # B a set for B never changes the result
\* of a later get for A, and a get for A never returns a response that was
\* stored under B, also when the fields contain the ':' separator.
C21_TriplesDoNotInterfere ==
    [][ (IsStep("set") /\ ~lastOp'.faulty) =>
          \A t \in Triples \ {StepTriple} :
              GetResult(files', t) = GetResult(files, t) ]_vars

\* what a get addressing the key returns on the files fs, no fault met
GetByKey(fs, key) == GetOutcome(fs, key, now, ttl_seconds, FALSE, FALSE)

C23_GetOnlyDeletesOwnStaleRecord ==
    [][ IsStep("get") =>
          /\ \A k \in CacheKeys \ {StepKey} : files'[k] = files[k]
          /\ files'[StepKey] \in {files[StepKey], NoFile}
          /\ files'[StepKey] # files[StepKey] =>
                \/ ~WellFormed(files[StepKey])
                \/ Expired(files[StepKey], now)
          /\ ~files[StepKey].exists => files' = files
          /\ (WellFormed(files[StepKey]) /\ ~Expired(files[StepKey], now)) =>
                files' = files ]_vars

\* C24: a successful set replaces any existing record of its key, whatever
\* its state (fresh, expired or malformed), with one holding the new response
\* and timestamp = now; a get within ttl_seconds of the set returns the
\* response written last, and the cache holds one record for the key: the
\* stored keys are those stored before plus the key of the set, and the
\* records of the other keys are unchanged.
C24_SetReplacesRecord ==
    [][ (IsStep("set") /\ ~lastOp'.faulty) =>
          /\ WellFormed(files'[StepKey])
          /\ TimestampOf(files'[StepKey]) = now
          /\ ResponseOf(files'[StepKey]) = lastOp'.response
          /\ \A t \in now .. now + ttl_seconds :
                GetOutcome(files', StepKey, t, ttl_seconds, FALSE, FALSE)
                    = Outcome(Some(lastOp'.response), "none", 0, files')
          /\ Stored(files') = Stored(files) \cup {StepKey}
          /\ \A k \in CacheKeys \ {StepKey} : files'[k] = files[k] ]_vars

\* a second successful set of one triple, made later than the first with
\* another response, has replaced the record the first one wrote
C24_Witness ==
    /\ lastOp.op = "set"
    /\ ~lastOp.faulty
    /\ lastOp.prior.isSet
    /\ lastOp.prior.response = "r1"
    /\ lastOp.response = "r2"
    /\ lastOp.at > lastOp.prior.at
    /\ WellFormed(files[LastKey])
    /\ ResponseOf(files[LastKey]) = "r2"
    /\ TimestampOf(files[LastKey]) = lastOp.at

(***************************************************************************)
(* Claims about the pipelines (checked under SpecPipeline)                 *)
(***************************************************************************)

\* C5: the cache is consulted before the provider, the provider is called
\* only on a miss and its result is stored, so the same (diff, model) is
\* never sent to the provider again after a call for it succeeded.
C5_CacheBeforeProvider ==
    \A j \in DOMAIN providerCalls :
        providerCalls[j].caller = "summarize_commit" =>
            /\ providerCalls[j].ok =>
                  files[CacheKey(providerCalls[j].diff, providerCalls[j].model, "")].exists
            /\ \A i \in 1..(j - 1) :
                  ~(/\ providerCalls[i].ok
                    /\ providerCalls[i].caller = "summarize_commit"
                    /\ providerCalls[i].diff = providerCalls[j].diff
                    /\ providerCalls[i].model = providerCalls[j].model)

\* C6: every outbound text-generation call is immediately preceded by one
\* wait_if_needed invocation: the limiter has been invoked once per call.
C6_EveryCallRateLimited == Len(history) >= Len(providerCalls)

\* the provider calls summarize_commit made, in order
SummarizeCalls ==
    SelectSeq(providerCalls, LAMBDA c : c.caller = "summarize_commit")

\* C13: for every sequence of commits and every subset of them whose
\* text-generation call fails, the changelog pipeline produces exactly one
\* entry per commit, in commit order; each failed commit's entry carries the
\* summary "Summary unavailable." and the commits after it are still
\* processed (the loop can always take the next commit).
C13_OneEntryPerCommit ==
    /\ Len(changelog) <= Len(commits)
    /\ Len(SummarizeCalls) = Len(changelog)
    /\ \A i \in DOMAIN changelog :
          /\ changelog[i].hash = i
          /\ SummarizeCalls[i].diff = commits[i]
          /\ ~SummarizeCalls[i].ok => changelog[i].summary = "Summary unavailable."
          /\ SummarizeCalls[i].ok => changelog[i].summary \in Responses
    /\ Len(changelog) < Len(commits) =>
          ENABLED (\E answer \in ProviderAnswers : SummarizeCommit(answer))

\* C13 witness: a run over three commits completed although the call for
\* the second commit failed
C13_Witness ==
    /\ Len(commits) = 3
    /\ Len(changelog) = 3
    /\ SummarizeCalls[1].ok
    /\ ~SummarizeCalls[2].ok
    /\ changelog[2].summary = "Summary unavailable."
    /\ SummarizeCalls[3].ok
    /\ changelog[3].summary = "r2"

(***************************************************************************)
(* Claims about the command line (checked under SpecCli)                   *)
(***************************************************************************)

\* the output file is as it was before the run
Untouched == output = IF run.had THEN OldOutput ELSE NoFile

\* the run was started with a configuration error
ConfigError ==
    \/ ~run.key
    \/ run.repo = "invalid"
    \/ run.format \notin {"markdown", "json", "csv"}

\* C14: on every configuration error (missing OPENAI_API_KEY, invalid
\* repository path, unknown output format) the run terminates with a
\* non-zero exit status and the output file is never written, neither fully
\* nor partially: the run never gets past its start-up steps.
C14_ConfigErrorIsFatal ==
    ConfigError =>
        /\ run.status # 0
        /\ run.pc \in {"parse_args", "from_args", "iterate_commits", "exited"}
        /\ Untouched

\* C14 witness: a run with a credential and a known format exited with
\* status 1 on an invalid repository path, an output file being present
C14_Witness ==
    /\ run.pc = "exited"
    /\ run.status = 1
    /\ ~run.interrupted
    /\ run.key
    /\ run.repo = "invalid"
    /\ run.format = "json"
    /\ run.had
    /\ Untouched

\* C15: a user interruption arriving at any point of the run terminates the
\* process with exit status 130 and leaves the output file either untouched
\* or completely written, never truncated or partial.
C15_InterruptLeavesOutputWhole ==
    run.interrupted =>
        /\ run.status = 130
        /\ \/ Untouched
           \/ output = File(FormatChangelog(run.format, changelog))

(***************************************************************************)
(* Claims about the constructor (checked under SpecCtor)                   *)
(***************************************************************************)

\* the positions at which a line of the text starts
LineStarts(text) == {i \in 1..Len(text) : i = 1 \/ text[i - 1] = "\n"}

\* the line of the text that starts at position i, without its newline
LineAt(text, i) ==
    LET ends == {j \in i..(Len(text) + 1) : j = Len(text) + 1 \/ text[j] = "\n"}
        end == CHOOSE j \in ends : \A k \in ends : j <= k
    IN  SubSeq(text, i, end - 1)

\* the number of lines of the ignore-list that name the directory
References(text, dir) ==
    Cardinality({i \in LineStarts(text) :
                    LineAt(text, i) \in {dir, dir \o <<"/">>}})

\* the step is a construction of a cache
IsConstruct == ctor'.n = ctor.n + 1

\* C16: constructing an APICache creates the ignore-list containing the
\* cache path when the file is absent, appends the cache path with all
\* existing content preserved when the file exists and does not reference
\* the path, and leaves the file unchanged when it already references the
\* path; hence the ignore-list holds exactly one reference to the directory
\* after any number of constructions (no I/O failure met).
C16_IgnoreListRegistersOnce ==
    [][ (IsConstruct /\ ctor'.raised = "none") =>
          /\ ~gitignore.exists => gitignore' = File(Entry(ctor'.dir))
          /\ (gitignore.exists /\ References(gitignore.text, ctor'.dir) = 0) =>
                /\ gitignore'.exists
                /\ Len(gitignore'.text) > Len(gitignore.text)
                /\ SubSeq(gitignore'.text, 1, Len(gitignore.text)) = gitignore.text
                /\ References(gitignore'.text, ctor'.dir) = 1
          /\ (gitignore.exists /\ References(gitignore.text, ctor'.dir) > 0) =>
                gitignore' = gitignore
          /\ References(gitignore'.text, ctor'.dir) = 1 ]_vars

\* C17: if the ignore-list side effect of the constructor fails (the file
\* cannot be read, created or appended to), no error propagates to the code
\* constructing the cache.
C17_IgnoreListFailureSwallowed == ctor.raised = "none"

====
